---- MODULE Spec2Model ----
(***************************************************************************)
(* Document processing and payment-gated analysis pipeline of              *)
(* dreamer-doc-ai-fastapi: the Document / Payment / AnalysisResult rows,   *)
(* the two endpoints that touch payments (process_payment, stripe_webhook),*)
(* the upload endpoint and the two background tasks.                       *)
(*                                                                         *)
(* Modelling decisions:                                                    *)
(*  - every request and every background task owns a working SQLAlchemy    *)
(*    session; a commit is one atomic transaction on the rows;             *)
(*  - the unit of work emits an UPDATE only for the attributes whose       *)
(*    assigned value differs from the value the session loaded; an         *)
(*    attribute expired by an earlier commit is always written;            *)
(*  - the server is started with several workers (main.py), so two         *)
(*    requests can interleave between their reads and their commit;        *)
(*  - the extraction, analysis and payment capabilities are external: they *)
(*    succeed or fail nondeterministically;                                *)
(*  - a table is the bag of its rows (the generated primary keys are left  *)
(*    out), and so are the scheduled tasks and the requests in flight;     *)
(*  - response observes one response: a request either goes unobserved or  *)
(*    has its response recorded, which ends the observed behaviour (no     *)
(*    handler reads response).  With recording = FALSE nothing is observed *)
(*    and the program runs on.                                             *)
(***************************************************************************)
EXTENDS Integers, Sequences, FiniteSets, Bags, TLC

\* ---------------------------------------------------------------- bounds
MaxDocs == 2
MaxIntents == 2
MaxInFlight == 2
MaxLoad == 4
MaxRate == 2

DocIds == 1..MaxDocs
Intents == 1..MaxIntents

\* ------------------------------------------------------------- Optional[T]
None == <<>>
Some(v) == <<v>>

\* --------------------------------------------------------------- settings
MIN_CHARGE == 350
Infinity == -1

\* PRICING_TIERS as config.py declares it; float('inf') is Infinity.
DefaultTiers ==
  << [max_chars |-> 1000, price |-> 100],
     [max_chars |-> 5000, price |-> 200],
     [max_chars |-> 10000, price |-> 300],
     [max_chars |-> 50000, price |-> 500],
     [max_chars |-> 100000, price |-> 800],
     [max_chars |-> Infinity, price |-> 1000] >>

Max(a, b) == IF a >= b THEN a ELSE b

STRIPE_WEBHOOK_SECRET == "whsec"
DefaultAllowed == {"pdf", "docx"}
MimeAllowed == {"application/pdf"}

\* ------------------------------------------------------------ enumerations
UPLOADED == "uploaded"
PROCESSING == "processing"
ANALYZED == "analyzed"
FAILED == "failed"
DocumentStatus == {UPLOADED, PROCESSING, ANALYZED, FAILED}

PENDING == "pending"
COMPLETED == "completed"
PaymentStatus == {PENDING, COMPLETED, FAILED}

SUCCEEDED_EVENT == "payment_intent.succeeded"
FAILED_EVENT == "payment_intent.payment_failed"
REFUNDED_EVENT == "charge.refunded"

\* ------------------------------------------------------- capability inputs
\* Uploaded contents: what libmagic detects in them and what the Extraction
\* Capability finds in them.
Contents == {"a", "t"}
Magic(content) == IF content = "t" THEN "text/plain" ELSE "application/pdf"
CharCountOf(content) == IF content = "a" THEN 500 ELSE 20000
TitleOf(content) == content
ExtractionError == "corrupt file"
AnalysisError == "Response missing required 'summary' field"

NoRow == [status |-> "absent"]
NoResponse == [op |-> "none", code |-> 0, detail |-> "none"]

VARIABLES
  ALLOWED_EXTENSIONS,  \* settings value read by upload_document
  PRICING_TIERS,       \* settings value read by calculate_price
  recording,           \* whether a response may be observed
  docs,                \* Document table: id -> row or NoRow
  payments,            \* Payment table
  results,             \* AnalysisResult table
  files,               \* names of the files stored in UPLOAD_DIR
  upl,                 \* upload_document request of each id
  extract,             \* process_document_background task of each id
  atasks,              \* analyze_document_background tasks
  calls,               \* process_payment requests between read and commit
  stripeStatus,        \* payment processor: status of each intent
  response,            \* the response observed
  counts,              \* two arguments given to calculate_price
  prices,              \* what calculate_price returned for each
  requested,           \* amount argument given to create_payment_intent
  charged,             \* amount of the PaymentIntent it created
  impl,                \* which of the two RateLimiter classes is in use
  requests_per_minute, \* RateLimiter.requests_per_minute
  requests,            \* RateLimiter.requests: key -> list of timestamps
  clock,               \* what time.time() returns, in ticks
  returned,            \* what the last is_allowed call returned
  admitted             \* every timestamp is_allowed has admitted, per key

vars == << ALLOWED_EXTENSIONS, PRICING_TIERS, recording, docs, payments,
           results, files, upl, extract, atasks, calls, stripeStatus,
           response, counts, prices, requested, charged, impl,
           requests_per_minute, requests, clock, returned, admitted >>

limiter == << impl, requests_per_minute, requests, clock, returned,
              admitted >>

\* What no request handler and no background task assigns: the settings,
\* and the arguments and results of the functions called on their own.
config == << ALLOWED_EXTENSIONS, PRICING_TIERS, recording,
             counts, prices, requested, charged, limiter >>

\* ---------------------------------------------------------------- pricing
WithinTier_Strict(char_count, tier) ==
  tier.max_chars = Infinity \/ char_count < tier.max_chars

WithinTier(char_count, tier) ==
  tier.max_chars = Infinity \/ char_count <= tier.max_chars

LastTier_First == PRICING_TIERS[1]

\* PRICING_TIERS[-1]
LastTier == PRICING_TIERS[Len(PRICING_TIERS)]

Floored_Not(price) == price

\* max(tier.price, self.MIN_CHARGE)
Floored(price) == Max(price, MIN_CHARGE)

RECURSIVE PriceFrom(_, _)
PriceFrom(char_count, k) ==
  IF k > Len(PRICING_TIERS)
    THEN Floored(LastTier.price)
    ELSE IF WithinTier(char_count, PRICING_TIERS[k])
           THEN Floored(PRICING_TIERS[k].price)
           ELSE PriceFrom(char_count, k + 1)

calculate_price(char_count) == PriceFrom(char_count, 1)

create_payment_intent_Unfloored(amount) == amount

\* The amount create_payment_intent passes to stripe.PaymentIntent.create.
create_payment_intent(amount) == Max(amount, MIN_CHARGE)

InitRows ==
  /\ ALLOWED_EXTENSIONS \in {DefaultAllowed, MimeAllowed}
  /\ docs = [d \in DocIds |-> NoRow]
  /\ payments = EmptyBag
  /\ results = EmptyBag
  /\ files = {}
  /\ upl = [d \in DocIds |-> "none"]
  /\ extract = [d \in DocIds |-> "none"]
  /\ atasks = EmptyBag
  /\ calls = EmptyBag
  /\ stripeStatus = [i \in Intents |-> "requires_payment_method"]
  /\ response = NoResponse

\* The server with the tiers config.py declares; no function is called on
\* its own.
\* rate_limiter = RateLimiter(): no request seen yet.
Keys == {"10.0.0.1", "10.0.0.2"}

LimiterIdle ==
  /\ impl = "core.security"
  /\ requests_per_minute = MaxRate
  /\ requests = [key \in Keys |-> << >>]
  /\ clock = 0
  /\ returned = None
  /\ admitted = [key \in Keys |-> << >>]

InitServer ==
  /\ InitRows
  /\ PRICING_TIERS = DefaultTiers
  /\ counts = << 0, 0 >>
  /\ prices = << None, None >>
  /\ requested = MIN_CHARGE
  /\ charged = None
  /\ LimiterIdle

Init == InitServer /\ recording = TRUE

\* The same server with no response observed.
InitQuiet == InitServer /\ recording = FALSE

\* ------------------------------------------------------------ unit of work
\* Value of a column after a flush that assigned val to it.  loaded is
\* Some(v) when the session holds the loaded value v of the attribute and
\* None when the attribute is expired: SQLAlchemy leaves out of the UPDATE
\* an attribute whose assigned value equals the loaded one.
Flushed(current, loaded, val) ==
  IF loaded = Some(val) THEN current ELSE val

Exists(d) == docs[d] # NoRow

\* What a session keeps of a loaded attribute: a flush compares it only with
\* the values the handler may assign, so every other value is kept as other.
Loaded(v, assignable, other) == Some(IF v \in assignable THEN v ELSE other)

Add(bag, x) == bag (+) SetToBag({x})
Del(bag, x) == bag (-) SetToBag({x})

\* A step of a request that sends the response (op, code, detail); detail
\* is the detail of an error, and names the branch taken otherwise.
Responds(op, code, detail) ==
  /\ response = NoResponse
  /\ response' \in {NoResponse} \cup
                    IF recording
                      THEN {[op |-> op, code |-> code, detail |-> detail]}
                      ELSE {}

\* A step that sends no response.
Silent == response = NoResponse /\ response' = NoResponse

\* Documents uploaded, intents paid and confirm requests in flight.
Load ==
  Cardinality({d \in DocIds : Exists(d)})
    + Cardinality({i \in Intents : stripeStatus[i] = "succeeded"})
    + BagCardinality(calls)

\* A Document created in the status the extraction task gives it.
NewDocument_Processing(filename) ==
  [filename |-> filename, status |-> PROCESSING, char_count |-> None,
   title |-> None, analysis_cost |-> None, error_message |-> None]

NewDocument(filename) ==
  [filename |-> filename, status |-> UPLOADED, char_count |-> None,
   title |-> None, analysis_cost |-> None, error_message |-> None]

validate_file_type(content, allowed_types) == Magic(content) \in allowed_types

generate_file_hash(content) == content

\* --------------------------------------------------------- upload_document
FreshId(d) == upl[d] = "none" /\ \A e \in DocIds : e < d => upl[e] # "none"

\* Size validation raises inside the try block: the generic handler answers
\* 500 with the message of the HTTPException, and nothing was created.
UploadTooLarge ==
  /\ Responds("upload_document", 500, "File size exceeds maximum limit")
  /\ UNCHANGED << config, files, docs, payments, results, upl, extract, atasks,
                  calls, stripeStatus >>

\* A handler that stores the file before it validates the type.
UploadInvalidType_AfterWrite(content) ==
  /\ ~validate_file_type(content, ALLOWED_EXTENSIONS)
  /\ files' = files \cup {generate_file_hash(content)}
  /\ Responds("upload_document", 500, "Invalid file type")
  /\ UNCHANGED << config, docs, payments, results, upl, extract, atasks,
                  calls, stripeStatus >>

\* Type validation raises inside the try block, likewise.
UploadInvalidType(content) ==
  /\ ~validate_file_type(content, ALLOWED_EXTENSIONS)
  /\ Responds("upload_document", 500, "Invalid file type")
  /\ UNCHANGED << config, files, docs, payments, results, upl, extract, atasks,
                  calls, stripeStatus >>

\* The file is written, the Document row committed and the extraction task
\* added; create_payment_intent returns, the response is sent and the task
\* it carries is run after it.  (Between the commit and the response the
\* row is as it is after them: the request is one step.)
UploadAccepted(d, content) ==
  /\ FreshId(d)
  /\ Load < MaxLoad
  /\ validate_file_type(content, ALLOWED_EXTENSIONS)
  /\ files' = files \cup {generate_file_hash(content)}
  /\ docs' = [docs EXCEPT ![d] = NewDocument(generate_file_hash(content))]
  /\ upl' = [upl EXCEPT ![d] = "ok"]
  /\ extract' = [extract EXCEPT ![d] = "scheduled"]
  /\ Responds("upload_document", 200, UPLOADED)
  /\ UNCHANGED << config, payments, results, atasks, calls, stripeStatus >>

\* As above, but create_payment_intent raises: the cleanup removes the file
\* of that name, the response is an error, and the added task is dropped
\* with the response that would have carried it.  The row stays.
UploadIntentFails(d, content) ==
  /\ FreshId(d)
  /\ Load < MaxLoad
  /\ validate_file_type(content, ALLOWED_EXTENSIONS)
  /\ files' = files \ {generate_file_hash(content)}
  /\ docs' = [docs EXCEPT ![d] = NewDocument(generate_file_hash(content))]
  /\ upl' = [upl EXCEPT ![d] = "intent_failed"]
  /\ Responds("upload_document", 500, "Payment service error")
  /\ UNCHANGED << config, payments, results, extract, atasks, calls,
                  stripeStatus >>

\* --------------------------------------------- process_document_background
\* db.get, status = PROCESSING, commit; then awaits process_document.
ExtractStart(d) ==
  /\ extract[d] = "scheduled"
  /\ docs' = [docs EXCEPT ![d].status =
                Flushed(@, Some(docs[d].status), PROCESSING)]
  /\ extract' = [extract EXCEPT ![d] = "running"]
  /\ Silent
  /\ UNCHANGED << config, files, payments, results, upl, atasks, calls,
                  stripeStatus >>

\* An extraction that leaves the cost to a later commit.
ExtractSucceed_CostLater(d) ==
  /\ extract[d] = "running"
  /\ docs[d].filename \in files
  /\ LET char_count == CharCountOf(docs[d].filename) IN
       docs' = [docs EXCEPT
                  ![d].char_count = Flushed(@, None, Some(char_count)),
                  ![d].title = Flushed(@, None, Some(TitleOf(docs[d].filename))),
                  ![d].status = Flushed(@, None, ANALYZED)]
  /\ extract' = [extract EXCEPT ![d] = "done"]
  /\ Silent
  /\ UNCHANGED << config, files, payments, results, upl, atasks, calls,
                  stripeStatus >>

\* process_document returned, which takes the file to be there: the
\* attributes were expired by the first commit, so all four assignments are
\* written.
ExtractSucceed(d) ==
  /\ extract[d] = "running"
  /\ docs[d].filename \in files
  /\ LET char_count == CharCountOf(docs[d].filename) IN
       docs' = [docs EXCEPT
                  ![d].char_count = Flushed(@, None, Some(char_count)),
                  ![d].title = Flushed(@, None, Some(TitleOf(docs[d].filename))),
                  ![d].analysis_cost =
                     Flushed(@, None, Some(calculate_price(char_count))),
                  ![d].status = Flushed(@, None, ANALYZED)]
  /\ extract' = [extract EXCEPT ![d] = "done"]
  /\ Silent
  /\ UNCHANGED << config, files, payments, results, upl, atasks, calls,
                  stripeStatus >>

\* A handler that records the status but not the message.
ExtractFail_StatusOnly(d) ==
  /\ extract[d] = "running"
  /\ docs' = [docs EXCEPT ![d].status = Flushed(@, None, FAILED)]
  /\ extract' = [extract EXCEPT ![d] = "failed"]
  /\ Silent
  /\ UNCHANGED << config, files, payments, results, upl, atasks, calls,
                  stripeStatus >>

\* process_document raised: the handler records the failure and re-raises.
ExtractFail(d) ==
  /\ extract[d] = "running"
  /\ docs' = [docs EXCEPT
                ![d].status = Flushed(@, None, FAILED),
                ![d].error_message = Flushed(@, None, Some(ExtractionError))]
  /\ extract' = [extract EXCEPT ![d] = "failed"]
  /\ Silent
  /\ UNCHANGED << config, files, payments, results, upl, atasks, calls,
                  stripeStatus >>

\* --------------------------------------------------------- payment processor
\* The customer pays an intent (the intents are interchangeable: they are
\* paid in the order of their ids).
StripePay(i) ==
  /\ stripeStatus[i] = "requires_payment_method"
  /\ Load < MaxLoad
  /\ \A j \in Intents : j < i => stripeStatus[j] = "succeeded"
  /\ stripeStatus' = [stripeStatus EXCEPT ![i] = "succeeded"]
  /\ Silent
  /\ UNCHANGED << config, files, docs, payments, results, upl, extract, atasks,
                  calls >>

\* The events the processor has emitted: succeeded once the intent is paid;
\* payment_failed for an attempt that was declined at any earlier time.
Emitted(event) ==
  event.type = SUCCEEDED_EVENT => stripeStatus[event.id] = "succeeded"

\* ---------------------------------------------------------- process_payment
\* db.get found no Document: 404 (raised outside the try block).
PaymentNotFound(d, i) ==
  /\ ~Exists(d)
  /\ Responds("process_payment", 404, "Document not found")
  /\ UNCHANGED << config, files, docs, payments, results, upl, extract, atasks,
                  calls, stripeStatus >>

\* A handler that retrieves the intent before it looks for the Document.
PaymentStripeError_BeforeLookup(d, i) ==
  /\ Responds("process_payment", 400, "Stripe error")
  /\ UNCHANGED << config, files, docs, payments, results, upl, extract,
                  atasks, calls, stripeStatus >>

\* PaymentIntent.retrieve raised a StripeError: 400.
PaymentStripeError(d, i) ==
  /\ Exists(d)
  /\ Responds("process_payment", 400, "Stripe error")
  /\ UNCHANGED << config, files, docs, payments, results, upl, extract, atasks,
                  calls, stripeStatus >>

\* A handler that adds and commits the Payment before it looks at the status
\* of the intent.
PaymentNotSuccessful_AfterInsert(d, i) ==
  /\ Exists(d)
  /\ stripeStatus[i] # "succeeded"
  /\ \A p \in BagToSet(payments) : p.stripe_payment_id # i
  /\ payments' = Add(payments,
                     [document_id |-> d, stripe_payment_id |-> i,
                      amount |-> MIN_CHARGE, status |-> COMPLETED])
  /\ Responds("process_payment", 500, "Payment not successful")
  /\ UNCHANGED << config, files, docs, results, upl, extract, atasks, calls,
                  stripeStatus >>

\* The intent is not succeeded: the HTTPException(400) raised inside the try
\* block is caught by the generic handler, which answers 500.
PaymentNotSuccessful(d, i) ==
  /\ Exists(d)
  /\ stripeStatus[i] # "succeeded"
  /\ Responds("process_payment", 500, "Payment not successful")
  /\ UNCHANGED << config, files, docs, payments, results, upl, extract, atasks,
                  calls, stripeStatus >>

NewCall(d, i, loaded) ==
  [document_id |-> d, payment_intent_id |-> i, loaded_status |-> loaded]

\* The request going on to its commit whatever the status of the intent.
PaymentVerified_AnyStatus(d, i) ==
  /\ BagCardinality(calls) < MaxInFlight
  /\ Load < MaxLoad
  /\ Exists(d)
  /\ calls' = Add(calls,
                NewCall(d, i, Loaded(docs[d].status, {PROCESSING}, UPLOADED)))
  /\ Silent
  /\ UNCHANGED << config, files, docs, payments, results, upl, extract, atasks,
                  stripeStatus >>

\* The intent is succeeded: the request goes on to its commit.
PaymentVerified(d, i) ==
  /\ BagCardinality(calls) < MaxInFlight
  /\ Load < MaxLoad
  /\ Exists(d)
  /\ stripeStatus[i] = "succeeded"
  /\ calls' = Add(calls,
                NewCall(d, i, Loaded(docs[d].status, {PROCESSING}, UPLOADED)))
  /\ Silent
  /\ UNCHANGED << config, files, docs, payments, results, upl, extract, atasks,
                  stripeStatus >>

IntentRecorded(i) ==
  \E p \in BagToSet(payments) : p.stripe_payment_id = i

\* Payment(...): the amount is that of the intent, and upload_document
\* creates every intent for MIN_CHARGE.
NewPayment(d, i) ==
  [document_id |-> d, stripe_payment_id |-> i, amount |-> MIN_CHARGE,
   status |-> COMPLETED]

NewTask(d) ==
  [document_id |-> d, pc |-> "scheduled", loaded_status |-> None,
   loaded_error |-> None]

\* A commit on a table without the unique constraint on stripe_payment_id.
PaymentCommit_NoConstraint(c) ==
  /\ BagIn(c, calls)
  /\ LET payment == NewPayment(c.document_id, c.payment_intent_id) IN
       /\ payments' = Add(payments, payment)
       /\ Responds("process_payment", 200, payment.status)
  /\ docs' = [docs EXCEPT ![c.document_id].status =
                Flushed(@, c.loaded_status, PROCESSING)]
  /\ atasks' = Add(atasks, NewTask(c.document_id))
  /\ calls' = Del(calls, c)
  /\ UNCHANGED << config, files, results, upl, extract, stripeStatus >>

\* db.commit(): INSERT of the Payment and UPDATE of Document.status in one
\* transaction, then add_task and the success response.
PaymentCommit(c) ==
  /\ BagIn(c, calls)
  /\ ~IntentRecorded(c.payment_intent_id)
  /\ LET payment == NewPayment(c.document_id, c.payment_intent_id) IN
       /\ payments' = Add(payments, payment)
       /\ Responds("process_payment", 200, payment.status)
  /\ docs' = [docs EXCEPT ![c.document_id].status =
                Flushed(@, c.loaded_status, PROCESSING)]
  /\ atasks' = Add(atasks, NewTask(c.document_id))
  /\ calls' = Del(calls, c)
  /\ UNCHANGED << config, files, results, upl, extract, stripeStatus >>

\* A handler that adds the analysis task before the commit that fails.
PaymentCommitConflict_Scheduling(c) ==
  /\ BagIn(c, calls)
  /\ \E p \in BagToSet(payments) : p.stripe_payment_id = c.payment_intent_id
  /\ calls' = Del(calls, c)
  /\ atasks' = Add(atasks, NewTask(c.document_id))
  /\ Responds("process_payment", 500, "IntegrityError")
  /\ UNCHANGED << config, files, docs, payments, results, upl, extract,
                  stripeStatus >>

\* A handler that commits the status before it inserts the Payment.
PaymentCommitConflict_StatusFirst(c) ==
  /\ BagIn(c, calls)
  /\ \E p \in BagToSet(payments) : p.stripe_payment_id = c.payment_intent_id
  /\ calls' = Del(calls, c)
  /\ docs' = [docs EXCEPT ![c.document_id].status =
                Flushed(@, c.loaded_status, PROCESSING)]
  /\ Responds("process_payment", 500, "IntegrityError")
  /\ UNCHANGED << config, files, payments, results, upl, extract, atasks,
                  stripeStatus >>

\* db.commit() hits the unique constraint on stripe_payment_id: the
\* transaction is rolled back and the generic handler answers 500.
PaymentCommitConflict(c) ==
  /\ BagIn(c, calls)
  /\ IntentRecorded(c.payment_intent_id)
  /\ calls' = Del(calls, c)
  /\ Responds("process_payment", 500, "IntegrityError")
  /\ UNCHANGED << config, files, docs, payments, results, upl, extract, atasks,
                  stripeStatus >>

\* ----------------------------------------------------------- stripe_webhook
EventTypes == {SUCCEEDED_EVENT, FAILED_EVENT, REFUNDED_EVENT}
Payloads == [type : EventTypes, id : Intents]

Sign(raw_json, key) == [key |-> key, payload |-> raw_json]

\* A sender holds the signatures the processor made for the events it
\* emitted, and whatever it signs itself with another key: with a payload
\* it sends the processor's signature of that payload, the processor's
\* signature of another event of the same intent, or its own.
Signatures(raw_json) ==
  {Sign(e, STRIPE_WEBHOOK_SECRET) :
     e \in {p \in Payloads : p.id = raw_json.id /\ Emitted(p)}}
    \cup {Sign(raw_json, "forged")}

\* A construct_event that verifies nothing.
construct_event_Unverified(raw_json, signature, secret) == TRUE

\* stripe.Webhook.construct_event: the signature must be the one made with
\* the endpoint secret over this very payload.
construct_event(raw_json, signature, secret) ==
  signature = Sign(raw_json, secret)

\* A query without its filter: the first Payment row of the table.
FirstPayment_Unfiltered(i) ==
  IF payments # EmptyBag
    THEN Some(CHOOSE p \in BagToSet(payments) : TRUE)
    ELSE None

\* db.query(Payment).filter(Payment.stripe_payment_id == id).first()
FirstPayment(i) ==
  IF IntentRecorded(i)
    THEN Some(CHOOSE p \in BagToSet(payments) : p.stripe_payment_id = i)
    ELSE None

\* A handler that marks the payment Failed on every event.
StatusFor_AlwaysFailed(type) == FAILED

StatusFor(type) == IF type = SUCCEEDED_EVENT THEN COMPLETED ELSE FAILED

\* A handler whose last branch takes every other type of event.
Handled_AnyType(type) == TRUE

\* The two branches of the handler; an event of another type falls through.
Handled(type) == type \in {SUCCEEDED_EVENT, FAILED_EVENT}

WebhookRejected(raw_json, signature) ==
  /\ ~construct_event(raw_json, signature, STRIPE_WEBHOOK_SECRET)
  /\ Responds("stripe_webhook", 400, "signature")
  /\ UNCHANGED << config, files, docs, payments, results, upl, extract, atasks,
                  calls, stripeStatus >>

\* A handler that reconciles by inserting the Payment it does not find.
WebhookAccepted_Inserting(raw_json, signature) ==
  /\ construct_event(raw_json, signature, STRIPE_WEBHOOK_SECRET)
  /\ LET found == FirstPayment(raw_json.id) IN
       IF found # None
         THEN payments' =
                Add(Del(payments, found[1]),
                    [found[1] EXCEPT !.status = StatusFor(raw_json.type)])
         ELSE payments' =
                Add(payments,
                    [NewPayment(1, raw_json.id) EXCEPT
                       !.status = StatusFor(raw_json.type)])
  /\ Responds("stripe_webhook", 200, "payment updated")
  /\ UNCHANGED << config, files, docs, results, upl, extract, atasks, calls,
                  stripeStatus >>

WebhookAccepted(raw_json, signature) ==
  /\ construct_event(raw_json, signature, STRIPE_WEBHOOK_SECRET)
  /\ LET found == FirstPayment(raw_json.id) IN
       IF Handled(raw_json.type) /\ found # None
         THEN /\ payments' =
                   Add(Del(payments, found[1]),
                       [found[1] EXCEPT !.status =
                          Flushed(@, Some(@), StatusFor(raw_json.type))])
              /\ Responds("stripe_webhook", 200,
                          IF found[1].status = StatusFor(raw_json.type)
                            THEN "payment unchanged"
                            ELSE "payment updated")
         ELSE /\ UNCHANGED payments
              /\ Responds("stripe_webhook", 200, "no payment")
  /\ UNCHANGED << config, files, docs, results, upl, extract, atasks, calls,
                  stripeStatus >>

\* --------------------------------------------- analyze_document_background
\* db.get, then the task awaits analyze_document: the Analysis Capability
\* is invoked.
AnalyzeStart(t) ==
  /\ BagIn(t, atasks)
  /\ t.pc = "scheduled"
  /\ atasks' = Add(Del(atasks, t),
                   [t EXCEPT
                      !.pc = "running",
                      !.loaded_status =
                         Loaded(docs[t.document_id].status,
                                {ANALYZED, FAILED}, UPLOADED),
                      !.loaded_error =
                         Loaded(docs[t.document_id].error_message,
                                {Some(AnalysisError)}, None)])
  /\ Silent
  /\ UNCHANGED << config, files, docs, payments, results, upl, extract, calls,
                  stripeStatus >>

Finished(t, pc) ==
  [t EXCEPT !.pc = pc, !.loaded_status = None, !.loaded_error = None]

\* A task that records the status but stores no AnalysisResult.
AnalyzeSucceed_StatusOnly(t) ==
  /\ BagIn(t, atasks)
  /\ t.pc = "running"
  /\ docs' = [docs EXCEPT ![t.document_id].status =
                Flushed(@, t.loaded_status, ANALYZED)]
  /\ atasks' = Add(Del(atasks, t), Finished(t, "done"))
  /\ Silent
  /\ UNCHANGED << config, files, payments, results, upl, extract, calls,
                  stripeStatus >>

\* analyze_document returned: AnalysisResult row and status in one commit.
AnalyzeSucceed(t) ==
  /\ BagIn(t, atasks)
  /\ t.pc = "running"
  /\ results' = Add(results, [document_id |-> t.document_id])
  /\ docs' = [docs EXCEPT ![t.document_id].status =
                Flushed(@, t.loaded_status, ANALYZED)]
  /\ atasks' = Add(Del(atasks, t), Finished(t, "done"))
  /\ Silent
  /\ UNCHANGED << config, files, payments, upl, extract, calls, stripeStatus >>

\* A handler that marks Failed every Document found in Processing.
AnalyzeFail_EveryProcessing(t) ==
  /\ BagIn(t, atasks)
  /\ t.pc = "running"
  /\ docs' = [d \in DocIds |->
                IF d = t.document_id \/ docs[d].status = PROCESSING
                  THEN [docs[d] EXCEPT
                          !.status = FAILED,
                          !.error_message = Some(AnalysisError)]
                  ELSE docs[d]]
  /\ atasks' = Add(Del(atasks, t), Finished(t, "failed"))
  /\ Silent
  /\ UNCHANGED << config, files, payments, results, upl, extract, calls,
                  stripeStatus >>

\* analyze_document raised: the handler records the failure and re-raises.
AnalyzeFail(t) ==
  /\ BagIn(t, atasks)
  /\ t.pc = "running"
  /\ docs' = [docs EXCEPT
                ![t.document_id].status = Flushed(@, t.loaded_status, FAILED),
                ![t.document_id].error_message =
                   Flushed(@, t.loaded_error, Some(AnalysisError))]
  /\ atasks' = Add(Del(atasks, t), Finished(t, "failed"))
  /\ Silent
  /\ UNCHANGED << config, files, payments, results, upl, extract, calls,
                  stripeStatus >>

\* ------------------------------------------------------------ get_document
\* db.get found no Document: 404.
GetDocumentNotFound(d) ==
  /\ ~Exists(d)
  /\ Responds("get_document", 404, "Document not found")
  /\ UNCHANGED << config, files, docs, payments, results, upl, extract,
                  atasks, calls, stripeStatus >>

\* DocumentResponse.from_orm(document)
GetDocument(d) ==
  /\ Exists(d)
  /\ Responds("get_document", 200, docs[d].status)
  /\ UNCHANGED << config, files, docs, payments, results, upl, extract,
                  atasks, calls, stripeStatus >>

\* ------------------------------------------------------- get_payment_status
\* db.get found no Payment of the id named (an id no row was given): 404.
GetPaymentStatusNotFound ==
  /\ Responds("get_payment_status", 404, "Payment not found")
  /\ UNCHANGED << config, files, docs, payments, results, upl, extract,
                  atasks, calls, stripeStatus >>

\* PaymentResponse.from_orm(payment)
GetPaymentStatus(payment) ==
  /\ BagIn(payment, payments)
  /\ Responds("get_payment_status", 200, payment.status)
  /\ UNCHANGED << config, files, docs, payments, results, upl, extract,
                  atasks, calls, stripeStatus >>

\* ------------------------------------------------------------ specification
Next ==
  \/ UploadTooLarge
  \/ \E content \in Contents : UploadInvalidType(content)
  \/ \E d \in DocIds, content \in Contents : UploadAccepted(d, content)
  \/ \E d \in DocIds, content \in Contents : UploadIntentFails(d, content)
  \/ \E d \in DocIds : ExtractStart(d)
  \/ \E d \in DocIds : ExtractSucceed(d)
  \/ \E d \in DocIds : ExtractFail(d)
  \/ \E i \in Intents : StripePay(i)
  \/ \E d \in DocIds, i \in Intents : PaymentNotFound(d, i)
  \/ \E d \in DocIds, i \in Intents : PaymentStripeError(d, i)
  \/ \E d \in DocIds, i \in Intents : PaymentNotSuccessful(d, i)
  \/ \E d \in DocIds, i \in Intents : PaymentVerified(d, i)
  \/ \E c \in BagToSet(calls) : PaymentCommit(c)
  \/ \E c \in BagToSet(calls) : PaymentCommitConflict(c)
  \/ \E raw_json \in Payloads : \E signature \in Signatures(raw_json) :
       WebhookRejected(raw_json, signature)
  \/ \E raw_json \in Payloads : \E signature \in Signatures(raw_json) :
       WebhookAccepted(raw_json, signature)
  \/ \E t \in BagToSet(atasks) : AnalyzeStart(t)
  \/ \E t \in BagToSet(atasks) : AnalyzeSucceed(t)
  \/ \E t \in BagToSet(atasks) : AnalyzeFail(t)
  \/ \E d \in DocIds : GetDocumentNotFound(d)
  \/ \E d \in DocIds : GetDocument(d)
  \/ GetPaymentStatusNotFound
  \/ \E payment \in BagToSet(payments) : GetPaymentStatus(payment)

Spec == Init /\ [][Next]_vars

SpecQuiet == InitQuiet /\ [][Next]_vars

\* The server while the Extraction, Analysis and Payment capabilities
\* succeed: the steps in which one of them raises are left out.
NextCapable ==
  \/ UploadTooLarge
  \/ \E content \in Contents : UploadInvalidType(content)
  \/ \E d \in DocIds, content \in Contents : UploadAccepted(d, content)
  \/ \E d \in DocIds : ExtractStart(d)
  \/ \E d \in DocIds : ExtractSucceed(d)
  \/ \E i \in Intents : StripePay(i)
  \/ \E d \in DocIds, i \in Intents : PaymentNotFound(d, i)
  \/ \E d \in DocIds, i \in Intents : PaymentNotSuccessful(d, i)
  \/ \E d \in DocIds, i \in Intents : PaymentVerified(d, i)
  \/ \E c \in BagToSet(calls) : PaymentCommit(c)
  \/ \E c \in BagToSet(calls) : PaymentCommitConflict(c)
  \/ \E raw_json \in Payloads : \E signature \in Signatures(raw_json) :
       WebhookRejected(raw_json, signature)
  \/ \E raw_json \in Payloads : \E signature \in Signatures(raw_json) :
       WebhookAccepted(raw_json, signature)
  \/ \E t \in BagToSet(atasks) : AnalyzeStart(t)
  \/ \E t \in BagToSet(atasks) : AnalyzeSucceed(t)
  \/ \E d \in DocIds : GetDocumentNotFound(d)
  \/ \E d \in DocIds : GetDocument(d)
  \/ GetPaymentStatusNotFound
  \/ \E payment \in BagToSet(payments) : GetPaymentStatus(payment)

\* Starlette runs every background task added to a response that was sent,
\* and a request that reached its commit completes.
TasksRun ==
  /\ \A d \in DocIds : WF_vars(ExtractStart(d))
  /\ \A d \in DocIds : WF_vars(ExtractSucceed(d))
  /\ \A d \in DocIds :
       WF_vars(\E t \in BagToSet(atasks) :
                 t.document_id = d /\ AnalyzeStart(t))
  /\ \A d \in DocIds :
       WF_vars(\E t \in BagToSet(atasks) :
                 t.document_id = d /\ AnalyzeSucceed(t))
  /\ WF_vars(\E c \in BagToSet(calls) :
               PaymentCommit(c) \/ PaymentCommitConflict(c))

SpecCapable == InitQuiet /\ [][NextCapable]_vars /\ TasksRun

\* ------------------------------------------- the two functions on their own
\* calculate_price and create_payment_intent called with arguments drawn
\* from the values around every tier boundary and around MIN_CHARGE, under
\* tier lists with and without an unbounded last tier, with prices below
\* MIN_CHARGE, and with limits out of ascending order.
CharCounts ==
  {0, 1, 500, 1000, 1001, 5000, 10000, 10001, 50000, 50001, 100000, 100001}

Amounts == {0, 1, 349, 350, 351, 1000}

TierConfigs ==
  { DefaultTiers,
    << [max_chars |-> 1000, price |-> 400],
       [max_chars |-> 5000, price |-> 900] >>,
    << [max_chars |-> 1000, price |-> 400],
       [max_chars |-> Infinity, price |-> 100] >>,
    << [max_chars |-> 5000, price |-> 200],
       [max_chars |-> 1000, price |-> 600],
       [max_chars |-> Infinity, price |-> 700] >> }

server == << docs, payments, results, files, upl, extract, atasks, calls,
             stripeStatus, response >>

InitPrice ==
  /\ InitRows
  /\ recording = FALSE
  /\ PRICING_TIERS \in TierConfigs
  /\ counts \in {p \in CharCounts \X CharCounts : p[1] <= p[2]}
  /\ prices = << None, None >>
  /\ requested \in Amounts
  /\ charged = None
  /\ LimiterIdle

CalculatePrice(k) ==
  /\ prices[k] = None
  /\ prices' = [prices EXCEPT ![k] = Some(calculate_price(counts[k]))]
  /\ UNCHANGED << server, ALLOWED_EXTENSIONS, PRICING_TIERS, recording,
                  counts, requested, charged, limiter >>

CreatePaymentIntent ==
  /\ charged = None
  /\ charged' = Some(create_payment_intent(requested))
  /\ UNCHANGED << server, ALLOWED_EXTENSIONS, PRICING_TIERS, recording,
                  counts, prices, requested, limiter >>

NextPrice ==
  \/ \E k \in 1..2 : CalculatePrice(k)
  \/ CreatePaymentIntent

SpecPrice == InitPrice /\ [][NextPrice]_vars

\* ------------------------------------------------------------- RateLimiter
\* time.time() counts seconds as a float: the clock of the model counts
\* ticks of half a second, and is read at instants on either side of a
\* minute after a request.
TicksPerSecond == 2
Minute == 60 * TicksPerSecond
Times == {0, 1, 119, 120, 121, 240}
Implementations == {"core.security", "services.rate_limiter"}

\* [req_time for req_time in self.requests[key] if req_time > minute_ago]
Recent(times, minute_ago) ==
  SelectSeq(times, LAMBDA req_time : req_time > minute_ago)

\* A check that lets one more request through.
Exceeded_Strict(count) == count > requests_per_minute

\* len(self.requests[key]) >= self.requests_per_minute
Exceeded(count) == count >= requests_per_minute

\* 60 - (now - self.requests[key][0]), in ticks: core.security returns the
\* float, services.rate_limiter the int() of it, a whole number of seconds.
RetryAfter(now, first) ==
  LET retry_after == Minute - (now - first) IN
    IF impl = "services.rate_limiter"
      THEN (retry_after \div TicksPerSecond) * TicksPerSecond
      ELSE retry_after

InitRate ==
  /\ InitRows
  /\ recording = FALSE
  /\ PRICING_TIERS = DefaultTiers
  /\ counts = << 0, 0 >>
  /\ prices = << None, None >>
  /\ requested = MIN_CHARGE
  /\ charged = None
  /\ impl \in Implementations
  /\ requests_per_minute \in 1..MaxRate
  /\ requests = [key \in Keys |-> << >>]
  /\ clock = 0
  /\ returned = None
  /\ admitted = [key \in Keys |-> << >>]

\* Time passes between two calls.
Tick(t) ==
  /\ t > clock
  /\ clock' = t
  /\ UNCHANGED << server, ALLOWED_EXTENSIONS, PRICING_TIERS, recording,
                  counts, prices, requested, charged, impl,
                  requests_per_minute, requests, returned, admitted >>

\* is_allowed(key) when the limit is not reached: the timestamp is
\* appended to the cleaned list and the call returns (True, 0).
IsAllowedAdmits(key) ==
  /\ LET cleaned == Recent(requests[key], clock - Minute) IN
       /\ ~Exceeded(Len(cleaned))
       /\ requests' = [requests EXCEPT ![key] = Append(cleaned, clock)]
  /\ admitted' = [admitted EXCEPT ![key] = Append(@, clock)]
  /\ returned' = Some([key |-> key, allowed |-> TRUE, retry_after |-> 0])
  /\ UNCHANGED << server, ALLOWED_EXTENSIONS, PRICING_TIERS, recording,
                  counts, prices, requested, charged, impl,
                  requests_per_minute, clock >>

\* is_allowed(key) when the limit is reached: the cleaned list is kept and
\* the call returns (False, retry_after).
IsAllowedRejects(key) ==
  /\ LET cleaned == Recent(requests[key], clock - Minute) IN
       /\ Exceeded(Len(cleaned))
       /\ requests' = [requests EXCEPT ![key] = cleaned]
       /\ returned' = Some([key |-> key, allowed |-> FALSE,
                            retry_after |-> RetryAfter(clock, cleaned[1])])
  /\ UNCHANGED << server, ALLOWED_EXTENSIONS, PRICING_TIERS, recording,
                  counts, prices, requested, charged, impl,
                  requests_per_minute, clock, admitted >>

NextRate ==
  \/ \E t \in Times : Tick(t)
  \/ \E key \in Keys : IsAllowedAdmits(key)
  \/ \E key \in Keys : IsAllowedRejects(key)

SpecRate == InitRate /\ [][NextRate]_vars

\* ------------------------------------------------------------------ counts
RECURSIVE SumCopies(_, _)
SumCopies(bag, S) ==
  IF S = {} THEN 0
  ELSE LET x == CHOOSE y \in S : TRUE
       IN CopiesIn(x, bag) + SumCopies(bag, S \ {x})

\* Analysis tasks process_payment has added for document d.
Scheduled(d) ==
  SumCopies(atasks, {t \in BagToSet(atasks) : t.document_id = d})

\* Those of them that have invoked the Analysis Capability.
Invoked(d) ==
  SumCopies(atasks, {t \in BagToSet(atasks) :
                       t.document_id = d /\ t.pc # "scheduled"})

\* AnalysisResult rows of document d.
ResultsOf(d) ==
  SumCopies(results, {r \in BagToSet(results) : r.document_id = d})

PaymentsOf(d) == {p \in BagToSet(payments) : p.document_id = d}

\* -------------------------------------------------------------- properties
\* C1: however often process_payment is invoked for one document, with the
\* same or with different succeeded intents, one after the other or at the
\* same time, at most one analysis task is scheduled for the document and
\* the Analysis Capability is invoked at most once for it.
C1_OneAnalysisPerDocument ==
  \A d \in DocIds : Scheduled(d) <= 1 /\ Invoked(d) <= 1

\* C2: a process_payment request that reaches its commit with an intent id
\* that already has a Payment row succeeds as a no-operation: the response
\* is no error, and no Payment row, no Document status and no analysis task
\* changes.
C2_RepeatedConfirmIsNoOp ==
  [][\A c \in BagToSet(calls) :
       (/\ IntentRecorded(c.payment_intent_id)
        /\ PaymentCommit(c) \/ PaymentCommitConflict(c))
       => /\ response' # NoResponse => response'.code = 200
          /\ UNCHANGED << docs, payments, results, atasks >>]_vars

\* C3: a validly signed payment_intent.succeeded webhook for an intent that
\* has a Payment row leaves that row Completed and the number of Payment
\* rows as it was, is acknowledged without error, and changes nothing when
\* the row is Completed already (a second delivery leaves the state of the
\* first).
C3_SucceededWebhookIdempotent ==
  [][\A raw_json \in Payloads :
       (/\ raw_json.type = SUCCEEDED_EVENT
        /\ IntentRecorded(raw_json.id)
        /\ WebhookAccepted(raw_json, Sign(raw_json, STRIPE_WEBHOOK_SECRET)))
       => /\ \A p \in BagToSet(payments') :
               p.stripe_payment_id = raw_json.id => p.status = COMPLETED
          /\ BagCardinality(payments') = BagCardinality(payments)
          /\ response' # NoResponse => response'.code = 200
          /\ (\A p \in BagToSet(payments) :
                p.stripe_payment_id = raw_json.id => p.status = COMPLETED)
             => UNCHANGED << docs, payments, results, upl, extract, atasks,
                             calls, stripeStatus >>]_vars

\* C3 witness: a succeeded webhook found its Payment row Completed already
\* and was acknowledged.
C3_Witness ==
  /\ response = [op |-> "stripe_webhook", code |-> 200,
                 detail |-> "payment unchanged"]
  /\ payments # EmptyBag
  /\ \A p \in BagToSet(payments) : p.status = COMPLETED

\* C4: a webhook whose signature is not the one made with the endpoint
\* secret over its payload is answered with an error, and no Document,
\* Payment or AnalysisResult row changes, whatever the payload.
C4_UnsignedWebhookRejected ==
  [][\A raw_json \in Payloads : \A signature \in Signatures(raw_json) :
       (/\ signature # Sign(raw_json, STRIPE_WEBHOOK_SECRET)
        /\ WebhookRejected(raw_json, signature)
             \/ WebhookAccepted(raw_json, signature))
       => /\ response' # NoResponse => response'.code = 400
          /\ UNCHANGED << docs, payments, results >>]_vars

\* C4 witness: a webhook was rejected for its signature while Payment rows
\* that its payload names exist.
C4_Witness ==
  /\ response = [op |-> "stripe_webhook", code |-> 400,
                 detail |-> "signature"]
  /\ \A i \in Intents : IntentRecorded(i)

\* C5: no step changes the status of a Document that is Failed, or that is
\* Analyzed and has its AnalysisResult.
C5_TerminalStatusKept ==
  [][\A d \in DocIds :
       (/\ Exists(d)
        /\ \/ docs[d].status = FAILED
           \/ docs[d].status = ANALYZED /\ ResultsOf(d) > 0)
       => docs'[d].status = docs[d].status]_vars

\* C6: process_payment sets a Document to Processing and schedules its
\* analysis only when the extraction task of the document has completed
\* successfully.
C6_AnalysisAfterExtraction ==
  [][\A c \in BagToSet(calls) :
       PaymentCommit(c) => extract[c.document_id] = "done"]_vars

\* C7: every analysis task, hence every invocation of the Analysis
\* Capability, is for a document with a Payment row whose intent the
\* processor reports succeeded; and the step that schedules the task leaves
\* a Completed Payment row of the document committed.
C7_AnalysisOnlyAfterPayment ==
  /\ [](\A t \in BagToSet(atasks) :
          \E p \in PaymentsOf(t.document_id) :
            stripeStatus[p.stripe_payment_id] = "succeeded")
  /\ [][\A c \in BagToSet(calls) :
          atasks' # atasks /\ (PaymentCommit(c) \/ PaymentCommitConflict(c))
          => \E p \in BagToSet(payments') :
               /\ p.document_id = c.document_id
               /\ p.stripe_payment_id = c.payment_intent_id
               /\ p.status = COMPLETED
               /\ stripeStatus[p.stripe_payment_id] = "succeeded"]_vars

\* C7 witness: the Analysis Capability is running for a document.
C7_Witness ==
  \E t \in BagToSet(atasks) :
    t.pc = "running" /\ PaymentsOf(t.document_id) # {}

\* C8: a Document has an error_message exactly when its status is Failed.
C8_ErrorMessageIffFailed ==
  \A d \in DocIds :
    Exists(d) => (docs[d].error_message # None <=> docs[d].status = FAILED)

\* C9: a Document is Analyzed exactly when char_count, title and
\* analysis_cost are set and an AnalysisResult row of it exists.
C9_AnalyzedIffComplete ==
  \A d \in DocIds :
    Exists(d) =>
      (docs[d].status = ANALYZED
         <=> /\ docs[d].char_count # None
             /\ docs[d].title # None
             /\ docs[d].analysis_cost # None
             /\ ResultsOf(d) > 0)

\* C10: a Document has at most one AnalysisResult row, and has one only if
\* a Payment row of it exists and an analysis task of it has succeeded.
C10_OneResultPerDocument ==
  \A d \in DocIds :
    /\ ResultsOf(d) <= 1
    /\ ResultsOf(d) > 0 =>
         /\ PaymentsOf(d) # {}
         /\ \E t \in BagToSet(atasks) :
              t.document_id = d /\ t.pc = "done"

\* C11: every Document has at most one Payment row with status Completed,
\* whatever confirm requests and webhook events were applied to it.
C11_OneCompletedPaymentPerDocument ==
  \A d \in DocIds :
    Cardinality({p \in PaymentsOf(d) : p.status = COMPLETED}) <= 1

\* C12: no two Payment rows carry the same stripe_payment_id, also when two
\* confirm requests with the same intent id are between their read and
\* their commit at the same time.
C12_UniqueStripePaymentId ==
  /\ \A p \in BagToSet(payments) : CopiesIn(p, payments) = 1
  /\ \A p, q \in BagToSet(payments) :
       p.stripe_payment_id = q.stripe_payment_id => p = q

\* C12 witness: the Payment of an intent is committed while another confirm
\* request with the same intent id, which read before, is at its commit.
C12_Witness ==
  \E p \in BagToSet(payments) : \E c \in BagToSet(calls) :
    /\ c.payment_intent_id = p.stripe_payment_id
    /\ c.loaded_status = Some(UPLOADED)
    /\ docs[c.document_id].status = PROCESSING

\* C13: a validly signed payment_intent.succeeded or payment_failed webhook
\* for an intent id that has no Payment row creates no row, changes no row
\* and schedules nothing, and is acknowledged with success.
C13_UnknownIntentIgnored ==
  [][\A raw_json \in Payloads :
       (/\ ~IntentRecorded(raw_json.id)
        /\ WebhookAccepted(raw_json, Sign(raw_json, STRIPE_WEBHOOK_SECRET)))
       => /\ response' # NoResponse => response'.code = 200
          /\ UNCHANGED << docs, payments, results, atasks, extract >>]_vars

\* C13 witness: a webhook that found no Payment row was acknowledged while
\* the Payment row of another intent exists.
C13_Witness ==
  /\ response = [op |-> "stripe_webhook", code |-> 200,
                 detail |-> "no payment"]
  /\ payments # EmptyBag

\* C14: the outcome does not depend on the arrival order of the succeeded
\* webhook and the confirm request: in every state each intent has at most
\* one Payment row, each Payment row of a document has triggered exactly
\* one analysis, and a Payment row is not Completed only through a
\* payment_failed webhook of its intent, so that with succeeded webhooks
\* delivered before, between or after the steps of the confirm request the
\* one Payment row of the intent is Completed and one analysis is triggered.
C14_ArrivalOrderIndependent ==
  /\ [](\A i \in Intents :
          Cardinality({p \in BagToSet(payments) :
                         p.stripe_payment_id = i}) <= 1)
  /\ [](\A d \in DocIds : Scheduled(d) = Cardinality(PaymentsOf(d)))
  /\ [][\A p \in BagToSet(payments') :
          p.status # COMPLETED /\ ~BagIn(p, payments)
          => \E raw_json \in Payloads :
               /\ raw_json.type = FAILED_EVENT
               /\ raw_json.id = p.stripe_payment_id
               /\ WebhookAccepted(raw_json,
                                  Sign(raw_json, STRIPE_WEBHOOK_SECRET))]_vars

\* C14 witness: the succeeded webhook of the only Payment row is delivered
\* after the confirm request: the row is Completed and one analysis is
\* triggered for its document.
C14_Witness ==
  /\ response = [op |-> "stripe_webhook", code |-> 200,
                 detail |-> "payment unchanged"]
  /\ calls = EmptyBag
  /\ \E p \in BagToSet(payments) :
       /\ payments = SetToBag({p})
       /\ p.status = COMPLETED
       /\ Scheduled(p.document_id) = 1

\* C15: the step in which the Extraction Capability raises in the running
\* extraction task leaves the Document committed with status Failed and
\* the message of the exception as error_message, and ends the task with
\* the exception; char_count, title and analysis_cost of a Document whose
\* extraction failed are unset.
C15_ExtractionFailureRecorded ==
  /\ [](\A d \in DocIds :
          extract[d] = "failed" =>
            /\ docs[d].char_count = None
            /\ docs[d].title = None
            /\ docs[d].analysis_cost = None)
  /\ [][\A d \in DocIds :
          extract[d] = "running" /\ extract'[d] = "failed"
          => /\ docs'[d].status = FAILED
             /\ docs'[d].error_message = Some(ExtractionError)]_vars

\* C15 witness: an extraction task has failed and its Document is Failed
\* with the message.
C15_Witness ==
  \E d \in DocIds :
    /\ extract[d] = "failed"
    /\ docs[d].status = FAILED
    /\ docs[d].error_message = Some(ExtractionError)

\* C16: the step in which the Analysis Capability fails in a running
\* analysis task leaves the Document committed with status Failed and the
\* error message, creates no AnalysisResult row and changes no Payment row.
C16_AnalysisFailureRecorded ==
  [][\A t \in BagToSet(atasks) :
       AnalyzeFail(t)
       => /\ docs'[t.document_id].status = FAILED
          /\ docs'[t.document_id].error_message = Some(AnalysisError)
          /\ UNCHANGED << results, payments >>]_vars

\* C17: a confirm request whose retrieval the processor rejects, or whose
\* intent is not succeeded, is answered with an error and creates no
\* Payment row, changes no Document, schedules no analysis and leaves the
\* processor and the other requests as they were; and a confirm request
\* for an existing Document with a succeeded intent can always go on to its
\* commit, whatever confirm requests failed before.
C17_FailedConfirmChangesNothing ==
  /\ [][(/\ response' # NoResponse
         /\ response'.op = "process_payment"
         /\ response'.detail \in {"Stripe error", "Payment not successful"})
        => /\ response'.code >= 400
           /\ UNCHANGED << docs, payments, results, atasks, extract, calls,
                           stripeStatus >>]_vars
  /\ [](\A d \in DocIds, i \in Intents :
          (/\ response = NoResponse
           /\ Exists(d)
           /\ stripeStatus[i] = "succeeded"
           /\ BagCardinality(calls) < MaxInFlight
           /\ Load < MaxLoad)
          => ENABLED PaymentVerified(d, i))
  /\ [](\A c \in BagToSet(calls) :
          response = NoResponse /\ ~IntentRecorded(c.payment_intent_id)
          => ENABLED PaymentCommit(c))

\* C17 witness: a confirm request for an existing Document was answered
\* that the payment is not successful, and there is no Payment row and no
\* analysis task.
C17_Witness ==
  /\ response = [op |-> "process_payment", code |-> 500,
                 detail |-> "Payment not successful"]
  /\ \E d \in DocIds : Exists(d)
  /\ payments = EmptyBag
  /\ atasks = EmptyBag

\* C18: an upload rejected for its size or for its type creates nothing: no
\* Document row, no stored file, no extraction task, and no payment intent
\* (upl is "ok" for the uploads create_payment_intent returned for; the
\* processor is as it was).
C18_RejectedUploadCreatesNothing ==
  [][(/\ response' # NoResponse
      /\ response'.op = "upload_document"
      /\ response'.detail \in {"File size exceeds maximum limit",
                               "Invalid file type"})
     => UNCHANGED << docs, files, extract, upl, stripeStatus, payments,
                     results, atasks >>]_vars

\* C18 witness: with the types configured as MIME types, an upload of
\* another type was rejected while an accepted Document exists, and the
\* only stored file is that Document's.
C18_Witness ==
  /\ ALLOWED_EXTENSIONS = MimeAllowed
  /\ response = [op |-> "upload_document", code |-> 500,
                 detail |-> "Invalid file type"]
  /\ \E d \in DocIds :
       /\ upl = [e \in DocIds |-> IF e = d THEN "ok" ELSE "none"]
       /\ files = {docs[d].filename}

\* C19: an upload of a file with an invalid type is answered with status
\* 400 and the detail "Invalid file type".
C19_InvalidTypeIs400 ==
  (response.op = "upload_document" /\ response.detail = "Invalid file type")
    => response.code = 400

C21_UploadCreatesDocument ==
  /\ [][\A d \in DocIds :
          upl[d] # "ok" /\ upl'[d] = "ok"
          => /\ ~Exists(d)
             /\ docs'[d].status = UPLOADED
             /\ docs'[d].char_count = None
             /\ docs'[d].title = None
             /\ docs'[d].analysis_cost = None
             /\ docs'[d].error_message = None
             /\ \A e \in DocIds \ {d} : docs'[e] = docs[e]
             /\ extract[d] = "none"
             /\ extract' = [extract EXCEPT ![d] = "scheduled"]
             /\ response' # NoResponse
                => response' = [op |-> "upload_document", code |-> 200,
                                detail |-> UPLOADED]]_vars
  /\ [][(/\ response' # NoResponse
         /\ response'.op = "upload_document"
         /\ response'.code = 200)
        => \E d \in DocIds : upl[d] # "ok" /\ upl'[d] = "ok"]_vars

\* C21 witness: an upload was answered 200 with status uploaded, and its
\* Document is Uploaded with its extraction task scheduled.
C21_Witness ==
  /\ response = [op |-> "upload_document", code |-> 200, detail |-> UPLOADED]
  /\ \E d \in DocIds :
       /\ upl[d] = "ok"
       /\ docs[d].status = UPLOADED
       /\ extract[d] = "scheduled"

\* C22: the success response of a process_payment request reports the
\* payment status pending.
C22_ConfirmReportsPending ==
  (response.op = "process_payment" /\ response.code = 200)
    => response.detail = PENDING

\* C23: while the capabilities succeed and the scheduled tasks are run, a
\* Document that was uploaded and has a committed Payment eventually is
\* Analyzed with an AnalysisResult stored, and stays so, whatever the
\* interleaving of its extraction task, the confirm requests and the
\* analysis tasks.
C23_PaidDocumentGetsAnalyzed ==
  \A d \in DocIds :
    (upl[d] = "ok" /\ PaymentsOf(d) # {})
      ~> [](docs[d].status = ANALYZED /\ ResultsOf(d) > 0)

\* C23 witness: the extraction task and the analysis task of a paid
\* Document are done, and the Document is Analyzed with its result.
C23_Witness ==
  \E d \in DocIds :
    /\ upl[d] = "ok"
    /\ PaymentsOf(d) # {}
    /\ extract[d] = "done"
    /\ \A t \in BagToSet(atasks) : t.pc = "done"
    /\ docs[d].status = ANALYZED
    /\ ResultsOf(d) = 1

\* C24: the step in which a capability call made for an existing Document
\* fails (the creation of the payment intent during the upload, the
\* extraction, the analysis) leaves that Document Failed with an
\* error_message, so that no failure leaves it Uploaded or Processing with
\* no error recorded.
C24_FailureRecordedAsFailed ==
  [][\A d \in DocIds :
       (\/ upl[d] = "none" /\ upl'[d] = "intent_failed"
        \/ extract[d] = "running" /\ extract'[d] = "failed"
        \/ \E t \in BagToSet(atasks) : t.document_id = d /\ AnalyzeFail(t))
       => /\ docs'[d].status = FAILED
          /\ docs'[d].error_message # None]_vars

\* C25: calculate_price returns max(p, MIN_CHARGE), p being the price of the
\* first tier whose max_chars is at least char_count, or of the last tier
\* when char_count exceeds every limit; with the tiers config.py declares
\* that is 350 up to 10000, 500 up to 50000, 800 up to 100000, 1000 above.
C25_PriceIsFirstTierFloored ==
  \A k \in 1..2 :
    prices[k] # None =>
      LET c == counts[k]
          n == Len(PRICING_TIERS)
          fits == {j \in 1..n : \/ PRICING_TIERS[j].max_chars = Infinity
                                \/ PRICING_TIERS[j].max_chars >= c}
          first == CHOOSE j \in fits : \A i \in fits : j <= i
          p == IF fits = {} THEN PRICING_TIERS[n].price
                            ELSE PRICING_TIERS[first].price
      IN /\ prices[k][1] = (IF p >= MIN_CHARGE THEN p ELSE MIN_CHARGE)
         /\ PRICING_TIERS = DefaultTiers
              => prices[k][1] = (IF c <= 10000 THEN 350
                                 ELSE IF c <= 50000 THEN 500
                                 ELSE IF c <= 100000 THEN 800
                                 ELSE 1000)

C25_Witness ==
  /\ PRICING_TIERS = DefaultTiers
  /\ counts = << 500, 10001 >>
  /\ prices = << Some(MIN_CHARGE), Some(500) >>

C27_PriceAtLeastMinCharge ==
  \A k \in 1..2 : prices[k] # None => prices[k][1] >= MIN_CHARGE

C27_Witness ==
  /\ PRICING_TIERS[Len(PRICING_TIERS)].price < MIN_CHARGE
  /\ counts[2] = 100001
  /\ prices[2] = Some(MIN_CHARGE)

\* C28: the PaymentIntent create_payment_intent creates is for
\* max(amount, MIN_CHARGE): never below MIN_CHARGE, and the requested
\* amount itself when that is at least MIN_CHARGE.
C28_IntentAmountFloored ==
  charged # None =>
    /\ charged[1] >= MIN_CHARGE
    /\ requested >= MIN_CHARGE => charged[1] = requested
    /\ requested < MIN_CHARGE => charged[1] = MIN_CHARGE

C28_Witness ==
  /\ requested = 349
  /\ charged = Some(MIN_CHARGE)

\* C29: a Document that is Uploaded or Processing has char_count, title and
\* analysis_cost all unset, and a Document that is Analyzed has all three
\* set.
C29_FieldsFollowStatus ==
  \A d \in DocIds :
    Exists(d) =>
      /\ docs[d].status \in {UPLOADED, PROCESSING}
           => /\ docs[d].char_count = None
              /\ docs[d].title = None
              /\ docs[d].analysis_cost = None
      /\ docs[d].status = ANALYZED
           => /\ docs[d].char_count # None
              /\ docs[d].title # None
              /\ docs[d].analysis_cost # None

\* C30: char_count, title and analysis_cost of a Document are all unset or
\* all set; the commit that sets any of them sets all three and records
\* the status of a finished extraction; and an analysis_cost that is set
\* is calculate_price of the char_count.
C30_ExtractionCommittedAtomically ==
  /\ [](\A d \in DocIds :
          Exists(d) =>
            /\ \/ /\ docs[d].char_count = None
                  /\ docs[d].title = None
                  /\ docs[d].analysis_cost = None
               \/ /\ docs[d].char_count # None
                  /\ docs[d].title # None
                  /\ docs[d].analysis_cost # None
            /\ docs[d].analysis_cost # None
                 => docs[d].analysis_cost
                      = Some(calculate_price(docs[d].char_count[1])))
  /\ [][\A d \in DocIds :
          (/\ Exists(d)
           /\ \/ docs'[d].char_count # docs[d].char_count
              \/ docs'[d].title # docs[d].title
              \/ docs'[d].analysis_cost # docs[d].analysis_cost)
          => /\ docs[d].char_count = None
             /\ docs[d].title = None
             /\ docs[d].analysis_cost = None
             /\ docs'[d].char_count # None
             /\ docs'[d].title # None
             /\ docs'[d].analysis_cost # None
             /\ docs'[d].status = ANALYZED
             /\ extract[d] = "running"
             /\ extract'[d] = "done"]_vars

C30_Witness ==
  \E d \in DocIds :
    /\ Exists(d)
    /\ extract[d] = "done"
    /\ docs[d].status = ANALYZED
    /\ docs[d].char_count = Some(500)
    /\ docs[d].title # None
    /\ docs[d].analysis_cost = Some(MIN_CHARGE)

\* C31: an analysis task that succeeds adds its AnalysisResult row and sets
\* the Document to Analyzed in one commit, and an analysis task that fails
\* adds no AnalysisResult row.
C31_AnalysisCommittedAtomically ==
  [][\A t \in BagToSet(atasks) :
       /\ AnalyzeSucceed(t)
            => /\ results' = Add(results, [document_id |-> t.document_id])
               /\ docs'[t.document_id].status = ANALYZED
       /\ AnalyzeFail(t) => results' = results]_vars

\* C32: an operation on one Document (upload, extraction task, confirm,
\* analysis task, webhook for one of its intents), succeeding or failing,
\* leaves the row of every other Document and the Payment and
\* AnalysisResult rows of every other Document as they were.
C32_DocumentsIndependent ==
  [][\A a \in DocIds :
       ( \/ \E content \in Contents :
              UploadAccepted(a, content) \/ UploadIntentFails(a, content)
         \/ ExtractStart(a) \/ ExtractSucceed(a) \/ ExtractFail(a)
         \/ \E i \in Intents :
              \/ PaymentStripeError(a, i)
              \/ PaymentNotSuccessful(a, i)
              \/ PaymentVerified(a, i)
         \/ \E c \in BagToSet(calls) :
              /\ c.document_id = a
              /\ PaymentCommit(c) \/ PaymentCommitConflict(c)
         \/ \E t \in BagToSet(atasks) :
              /\ t.document_id = a
              /\ AnalyzeStart(t) \/ AnalyzeSucceed(t) \/ AnalyzeFail(t)
         \/ \E raw_json \in Payloads :
              /\ \E p \in PaymentsOf(a) : p.stripe_payment_id = raw_json.id
              /\ \E signature \in Signatures(raw_json) :
                   \/ WebhookAccepted(raw_json, signature)
                   \/ WebhookRejected(raw_json, signature) )
       => \A b \in DocIds \ {a} :
            /\ docs'[b] = docs[b]
            /\ \A p \in PaymentsOf(b) :
                 CopiesIn(p, payments') = CopiesIn(p, payments)
            /\ \A p \in BagToSet(payments') :
                 p.document_id = b => BagIn(p, payments)
            /\ CopiesIn([document_id |-> b], results')
                 = CopiesIn([document_id |-> b], results)]_vars

C32_Witness ==
  /\ docs[1].status = FAILED
  /\ docs[1].error_message = Some(AnalysisError)
  /\ PaymentsOf(1) # {}
  /\ Exists(2)
  /\ docs[2].status = PROCESSING
  /\ extract[2] = "running"
  /\ PaymentsOf(2) = {}

\* C33: the webhook handler writes nothing but the status of a Payment row
\* of the intent id of the event: it creates and deletes no row, changes no
\* Document, creates no AnalysisResult and schedules no analysis task; an
\* event of a type other than succeeded and payment_failed changes nothing.
C33_WebhookWritesOnePaymentStatus ==
  [][\A raw_json \in Payloads : \A signature \in Signatures(raw_json) :
       (WebhookAccepted(raw_json, signature)
          \/ WebhookRejected(raw_json, signature))
       => /\ docs' = docs
          /\ results' = results
          /\ atasks' = atasks
          /\ \/ payments' = payments
             \/ \E p \in BagToSet(payments) :
                  /\ p.stripe_payment_id = raw_json.id
                  /\ \E st \in {PENDING, COMPLETED, FAILED} :
                       payments' = Add(Del(payments, p),
                                       [p EXCEPT !.status = st])
          /\ raw_json.type \notin {SUCCEEDED_EVENT, FAILED_EVENT}
               => payments' = payments]_vars

C33_Witness ==
  \E p \in BagToSet(payments) :
    /\ p.status = FAILED
    /\ docs[p.document_id].status = ANALYZED
    /\ ResultsOf(p.document_id) = 1
    /\ stripeStatus[p.stripe_payment_id] = "succeeded"

\* C34: an intent id causes an analysis to be scheduled for at most one
\* Document: it is recorded for at most one Document, a Document has as
\* many analysis tasks as Payment rows, and a confirm whose intent id is
\* already recorded fails at its commit and schedules nothing.
C34_IntentPaysOneDocument ==
  /\ [](\A i \in Intents :
          SumCopies(payments, {p \in BagToSet(payments) :
                                 p.stripe_payment_id = i}) <= 1)
  /\ [](\A d \in DocIds : Scheduled(d) = SumCopies(payments, PaymentsOf(d)))
  /\ [][\A c \in BagToSet(calls) :
          (/\ IntentRecorded(c.payment_intent_id)
           /\ calls' = Del(calls, c))
          => /\ atasks' = atasks
             /\ response' \in {NoResponse,
                                [op |-> "process_payment", code |-> 500,
                                 detail |-> "IntegrityError"]}]_vars

C34_Witness ==
  /\ response = [op |-> "process_payment", code |-> 500,
                  detail |-> "IntegrityError"]
  /\ PaymentsOf(1) # {}
  /\ Scheduled(1) = 1
  /\ Exists(2)
  /\ PaymentsOf(2) = {}
  /\ Scheduled(2) = 0

\* C35: a confirm that ends in the error of an intent id already recorded
\* leaves the Payment rows, every Document and the analysis tasks as they
\* were: the Document is not moved to Processing.
C35_ConflictChangesNothing ==
  [][(/\ response'.op = "process_payment"
      /\ response'.detail = "IntegrityError")
     => /\ response'.code = 500
        /\ payments' = payments
        /\ docs' = docs
        /\ atasks' = atasks
        /\ results' = results]_vars

C35_Witness ==
  /\ response = [op |-> "process_payment", code |-> 500,
                  detail |-> "IntegrityError"]
  /\ docs[1].status = ANALYZED
  /\ ResultsOf(1) = 0
  /\ Scheduled(1) = 1

\* C36: a Document that is being analyzed or that has an AnalysisResult has
\* a Payment row in status Completed: no webhook event moves a Completed
\* Payment to another status.
C36_AnalysisHasCompletedPayment ==
  \A d \in DocIds :
    (Invoked(d) > 0 \/ ResultsOf(d) > 0)
      => \E p \in PaymentsOf(d) : p.status = COMPLETED

\* C37: the stored file named by every existing Document row exists: the
\* cleanup of a failed upload removes a file only when no Document row
\* refers to it.
C37_StoredFileExists ==
  \A d \in DocIds : Exists(d) => docs[d].filename \in files

\* C38: process_payment records a Completed Payment and schedules the
\* analysis of a Document only when the analysis_cost of the Document is
\* set and the amount of the intent is at least that cost.
C38_PaymentCoversCost ==
  [][\A c \in BagToSet(calls) :
       PaymentCommit(c)
         => /\ docs[c.document_id].analysis_cost # None
            /\ \A p \in BagToSet(payments') :
                 p.stripe_payment_id = c.payment_intent_id
                   => p.amount >= docs[c.document_id].analysis_cost[1]]_vars

\* C39: for every key the rate limiter admits at most requests_per_minute
\* requests within any 60 seconds: the list of a key never holds more than
\* requests_per_minute timestamps, a rejected call adds no timestamp and
\* returns a retry-after between 0 and 60 seconds, and a call for one key
\* leaves the list of every other key as it was.
C39_RateLimited ==
  /\ [](\A key \in Keys :
          /\ Len(requests[key]) <= requests_per_minute
          /\ \A j \in 1..Len(admitted[key]) :
               Cardinality({i \in 1..Len(admitted[key]) :
                              /\ admitted[key][i] > admitted[key][j] - Minute
                              /\ admitted[key][i] <= admitted[key][j]})
                 <= requests_per_minute)
  /\ [][\A key \in Keys :
          /\ (IsAllowedAdmits(key) \/ IsAllowedRejects(key))
               => \A other \in Keys \ {key} :
                    /\ requests'[other] = requests[other]
                    /\ admitted'[other] = admitted[other]
          /\ IsAllowedRejects(key)
               => /\ admitted' = admitted
                  /\ Len(requests'[key]) <= Len(requests[key])
                  /\ \A i \in 1..Len(requests'[key]) :
                       \E j \in 1..Len(requests[key]) :
                         requests'[key][i] = requests[key][j]
                  /\ returned'[1].allowed = FALSE
                  /\ returned'[1].retry_after >= 0
                  /\ returned'[1].retry_after <= Minute]_vars

C39_Witness ==
  /\ requests_per_minute = 2
  /\ clock = 119
  /\ requests["10.0.0.1"] = << 0, 1 >>
  /\ returned = Some([key |-> "10.0.0.1", allowed |-> FALSE,
                       retry_after |-> 1])
  /\ requests["10.0.0.2"] = << 1 >>
====
